---- MODULE Spec2Model ----
(***************************************************************************)
(* Model of main.py: the GET /usage aggregator (get_usage) and the credit  *)
(* scoring function (calculate_credits).                                   *)
(*                                                                         *)
(* A text is a sequence of one-character strings.  Credit amounts are kept *)
(* in hundredths of a credit, so 0.05 is 5, 0.1 is 10, 1 is 100, 5 is 500. *)
(***************************************************************************)
EXTENDS Integers, Sequences, FiniteSets, TLC

VARIABLES
    entry,              \* which entry point runs: "get_usage" or "calculate_credits"
    pc,                 \* get_usage: position in the handler
    messages_response,  \* get_usage: outcome of requests.get(messages_url)
    messages,           \* get_usage: messages_response.json()["messages"]
    i,                  \* get_usage: 1-based position of the for loop in messages
    usage_list,         \* get_usage: usage_list
    calls,              \* get_usage: the report lookups issued so far, with their outcomes
    scored,             \* get_usage: the texts calculate_credits was called on so far
    response,           \* get_usage: what the endpoint's caller gets
    cpc,                \* calculate_credits: position in the function
    text,               \* calculate_credits: text
    words,              \* calculate_credits: words
    total_credits,      \* calculate_credits: total_credits
    credits             \* calculate_credits: the returned value

vars == <<entry, pc, messages_response, messages, i, usage_list, calls, scored,
          response, cpc, text, words, total_credits, credits>>

usage_vars == <<pc, messages_response, messages, i, usage_list, calls, scored, response>>
credit_vars == <<cpc, text, words, total_credits, credits>>

-----------------------------------------------------------------------------
(* Characters *)

UpperSeq == <<"A","B","C","D","E","F","G","H","I","J","K","L","M",
              "N","O","P","Q","R","S","T","U","V","W","X","Y","Z">>
LowerSeq == <<"a","b","c","d","e","f","g","h","i","j","k","l","m",
              "n","o","p","q","r","s","t","u","v","w","x","y","z">>
UpperCase == {UpperSeq[k] : k \in DOMAIN UpperSeq}
LowerCase == {LowerSeq[k] : k \in DOMAIN LowerSeq}
Digits == {"0","1","2","3","4","5","6","7","8","9"}

\* the character class [a-zA-Z'-]
IsWordChar(c) == c \in UpperCase \cup LowerCase \cup {"'", "-"}

\* the complement of the character class [^A-Za-z0-9]
IsAlnum(c) == c \in UpperCase \cup LowerCase \cup Digits

\* str.lower() on one character
lower(c) ==
    IF c \in UpperCase
    THEN LowerSeq[CHOOSE k \in DOMAIN UpperSeq : UpperSeq[k] = c]
    ELSE c

vowels == {"a","e","i","o","u","A","E","I","O","U"}

Max(a, b) == IF a >= b THEN a ELSE b

-----------------------------------------------------------------------------
(* calculate_credits *)

BaseCost == 100
CharCost == 5
ShortWordMax == 3
ShortWordCost == 10
MidWordMin == 4
MidWordMax == 7
MidWordCost == 20
LongWordMin == 8
LongWordCost == 30
FirstThird == 2
ThirdStep == 3
VowelCost == 30
PenaltyLength == 100
PenaltyCost == 500
UniqueBonus == 200
MinimumCost == 100

\* total_credits = 1; total_credits += num_chars * 0.05
CharacterCount(t) == BaseCost + Len(t) * CharCost

\* where a match of [a-zA-Z'-]+ starts: a word character that no match before it
\* has consumed, which is one with no word character right before it
match_starts(t) ==
    {k \in DOMAIN t : IsWordChar(t[k]) /\ (k = 1 \/ ~IsWordChar(t[k - 1]))}

\* where the greedy + of the match starting at k stops
match_end(t, k) ==
    CHOOSE e \in k..Len(t) :
        /\ \A j \in k..e : IsWordChar(t[j])
        /\ e = Len(t) \/ ~IsWordChar(t[e + 1])

\* re.findall(r"[a-zA-Z'-]+", text): the matches, left to right
findall(t) ==
    LET starts == match_starts(t)
        nth(n) == CHOOSE k \in starts : Cardinality({j \in starts : j < k}) = n - 1
    IN  [n \in 1..Cardinality(starts) |-> SubSeq(t, nth(n), match_end(t, nth(n)))]

\* the chain with its first boundary one too high: a 4-letter word costs 0.1
WordLengthCostShifted(word) ==
    IF 1 <= Len(word) /\ Len(word) <= ShortWordMax + 1 THEN ShortWordCost
    ELSE IF Len(word) <= MidWordMax THEN MidWordCost
    ELSE IF Len(word) >= LongWordMin THEN LongWordCost
    ELSE 0

\* the if/elif chain on word_length
WordLengthCost(word) ==
    IF 1 <= Len(word) /\ Len(word) <= ShortWordMax THEN ShortWordCost
    ELSE IF MidWordMin <= Len(word) /\ Len(word) <= MidWordMax THEN MidWordCost
    ELSE IF Len(word) >= LongWordMin THEN LongWordCost
    ELSE 0

\* for word in words: total_credits += ...
RECURSIVE WordLengthMultipliers(_)
WordLengthMultipliers(ws) ==
    IF ws = <<>> THEN 0
    ELSE WordLengthCost(Head(ws)) + WordLengthMultipliers(Tail(ws))

\* range(2, num_chars, 3), 0-based
third_positions(num_chars) ==
    {p \in FirstThird .. (num_chars - 1) : (p - FirstThird) % ThirdStep = 0}

\* for i in third_positions: if text[i] in vowels: total_credits += 0.3
ThirdVowels(t) ==
    VowelCost * Cardinality({p \in third_positions(Len(t)) : t[p + 1] \in vowels})

\* if num_chars > 100: total_credits += 5
LengthPenalty(t) == IF Len(t) > PenaltyLength THEN PenaltyCost ELSE 0

\* the uniqueness test comparing the words ignoring case
AllUniqueIgnoringCase(ws) ==
    Len(ws) = Cardinality({[j \in DOMAIN ws[k] |-> lower(ws[k][j])] : k \in DOMAIN ws})

\* len(words) == len(set(words))
AllUnique(ws) == Len(ws) = Cardinality({ws[k] : k \in DOMAIN ws})

\* the bonus without its minimum
UnflooredUniqueWordBonus(total, ws) ==
    IF AllUnique(ws) THEN total - UniqueBonus ELSE total

\* if len(words) == len(set(words)): total_credits = max(total_credits - 2, 1)
UniqueWordBonus(total, ws) ==
    IF AllUnique(ws) THEN Max(total - UniqueBonus, MinimumCost) ELSE total

\* the cleaning without its .lower()
cleaned_text_cased(t) == SelectSeq(t, IsAlnum)

\* re.sub(r'[^A-Za-z0-9]', '', text).lower()
cleaned_text(t) ==
    LET kept == SelectSeq(t, IsAlnum)
    IN  [k \in DOMAIN kept |-> lower(kept[k])]

\* s[::-1]
Reversed(s) == [k \in DOMAIN s |-> s[Len(s) + 1 - k]]

\* if cleaned_text and cleaned_text == cleaned_text[::-1]: total_credits *= 2
PalindromeCheck(total, t) ==
    LET cleaned == cleaned_text(t)
    IN  IF cleaned # <<>> /\ cleaned = Reversed(cleaned) THEN total * 2 ELSE total

\* the whole function
calculate_credits(t) ==
    LET ws == findall(t)
        sum == CharacterCount(t) + WordLengthMultipliers(ws) + ThirdVowels(t)
                 + LengthPenalty(t)
    IN  PalindromeCheck(UniqueWordBonus(sum, ws), t)

-----------------------------------------------------------------------------
(* Inputs *)

MaxLen == 4
MaxMessages == 3

\* one character of each kind the function tells apart: lower-case vowel,
\* upper-case vowel, consonant, apostrophe (word character, not alphanumeric),
\* digit (alphanumeric, not a word character), space (neither)
Alphabet == {"a", "A", "b", "'", "1", " "}

ShortTexts == UNION {[1..n -> Alphabet] : n \in 0..MaxLen}

Repeat(c, n) == [k \in 1..n |-> c]

\* what a long text starts and ends with: nothing, one character, or a word of
\* a length on either side of a word-length threshold
Affixes ==
    {<<>>}
    \cup {<<c>> : c \in Alphabet}
    \cup {Repeat("b", n) : n \in {ShortWordMax, MidWordMin, MidWordMax, LongWordMin}}

\* run lengths on both sides of the word-length and length-penalty thresholds
LongRuns == {MidWordMax, LongWordMin, PenaltyLength - 1, PenaltyLength, PenaltyLength + 1}

LongTexts ==
    {p \o Repeat(c, n) \o s : p \in Affixes, c \in Alphabet, n \in LongRuns, s \in Affixes}

Texts == ShortTexts \cup LongTexts

None == "None"

\* dict.get(key, default)
get(d, key, default) == IF key \in DOMAIN d THEN d[key] ELSE default

\* Python truth value of a report_id
Truthy(v) == v # None /\ v # ""

MessageTexts == {<<"a", " ", "a">>}
ReportIds == {"", "123"}

MessageHeads == {[id |-> 1, timestamp |-> "2023-10-01T00:00:00Z"],
                 [id |-> 2, timestamp |-> "2023-10-02T00:00:00Z"]}

Messages ==
    UNION {{h,
            h @@ [text |-> t],
            h @@ [report_id |-> r],
            h @@ [text |-> t] @@ [report_id |-> r]}
           : h \in MessageHeads, t \in MessageTexts, r \in ReportIds}

MessageLists == UNION {[1..n -> Messages] : n \in 0..MaxMessages}

MessageStatuses == {200, 404, 500}

MessageResponses ==
    {[raised |-> "ConnectionError"]}
    \cup {[status_code |-> s, json |-> [messages |-> ms]]
          : s \in MessageStatuses, ms \in MessageLists}

\* one credit_cost below the scoring function's minimum of 1 credit, one absent
\* (with a name), one above the minimum (without a name)
ReportData ==
    {[id |-> 123, name |-> "Test Report", credit_cost |-> 50],
     [id |-> 123, name |-> "Test Report"],
     [id |-> 123, credit_cost |-> 1000]}

ReportErrorStatuses == {403, 500}

ReportResponses ==
    {[raised |-> "ConnectionError"]}
    \cup {[status_code |-> 200, json |-> d] : d \in ReportData}
    \cup {[status_code |-> s] : s \in {404} \cup ReportErrorStatuses}

-----------------------------------------------------------------------------
(* get_usage *)

HTTP_200_OK == 200
HTTP_404_NOT_FOUND == 404
HTTP_500_INTERNAL_SERVER_ERROR == 500

HTTPException(status_code, detail) ==
    [kind |-> "HTTPException", status_code |-> status_code, detail |-> detail]

JSONResponse(content) ==
    [kind |-> "JSONResponse", status_code |-> HTTP_200_OK, content |-> content]

\* an exception get_usage does not catch leaves the handler
Unhandled(exception) == [kind |-> "Unhandled", exception |-> exception]

Pending == [kind |-> "Pending"]

\* a raise_for_status() that raises for 5xx only
RaisesForServerErrorOnly(r) == r.status_code >= 500 /\ r.status_code < 600

\* Response.raise_for_status() raising HTTPError: for 4xx and 5xx
RaisesForStatus(r) == r.status_code >= 400 /\ r.status_code < 600

\* the try block raises a requests.exceptions.RequestException
RequestException(r) == "raised" \in DOMAIN r \/ RaisesForStatus(r)

\* the item put in front: usage_list.insert(0, usage_item)
PrependItem(list, item) == <<item>> \o list

\* usage_list.append(usage_item)
AppendItem(list, item) == Append(list, item)

\* the report's cost raised to the scoring function's minimum of 1
FlooredReportCredits(report_data) == Max(get(report_data, "credit_cost", 0), MinimumCost)

\* credit_used = report_data.get("credit_cost", 0)
ReportCredits(report_data) == get(report_data, "credit_cost", 0)

\* message_id, timestamp, text, report_id = message.get(...)
message_id == get(messages[i], "id", None)
timestamp == get(messages[i], "timestamp", None)
message_text == get(messages[i], "text", <<>>)
report_id == get(messages[i], "report_id", None)

usage_item == [message_id |-> message_id, timestamp |-> timestamp]

InLoop == entry = "get_usage" /\ pc = "loop" /\ i <= Len(messages)

\* try: requests.get(messages_url); raise_for_status(); json()["messages"]
\* except RequestException: raise HTTPException(500, "Failed to fetch messages")
FetchMessages ==
    /\ entry = "get_usage" /\ pc = "fetch"
    /\ \E r \in MessageResponses :
         /\ messages_response' = r
         /\ IF RequestException(r)
            THEN /\ response' = HTTPException(HTTP_500_INTERNAL_SERVER_ERROR,
                                              "Failed to fetch messages")
                 /\ pc' = "done"
                 /\ UNCHANGED messages
            ELSE /\ messages' = r.json.messages
                 /\ pc' = "loop"
                 /\ UNCHANGED response
    /\ UNCHANGED <<entry, i, usage_list, calls, scored>>
    /\ UNCHANGED credit_vars

\* else: credit_used = calculate_credits(text); append
NoReport ==
    /\ InLoop
    /\ ~Truthy(report_id)
    /\ scored' = Append(scored, message_text)
    /\ usage_list' = AppendItem(usage_list,
                        usage_item @@ [credits_used |-> calculate_credits(message_text)])
    /\ i' = i + 1
    /\ UNCHANGED <<entry, pc, messages_response, messages, calls, response>>
    /\ UNCHANGED credit_vars

\* report_response.status_code == 200: report_name, credit_cost; append
ReportFound ==
    /\ InLoop
    /\ Truthy(report_id)
    /\ \E r \in ReportResponses :
         /\ "raised" \notin DOMAIN r
         /\ r.status_code = HTTP_200_OK
         /\ calls' = Append(calls, [index |-> i, report_id |-> report_id, result |-> r])
         /\ usage_list' = AppendItem(usage_list,
                             usage_item @@ [report_name |-> get(r.json, "name", None)]
                                        @@ [credits_used |-> ReportCredits(r.json)])
    /\ i' = i + 1
    /\ UNCHANGED <<entry, pc, messages_response, messages, scored, response>>
    /\ UNCHANGED credit_vars

\* a 404 that leaves credit_used at its initial 0
ReportNotFoundNoFallback ==
    /\ InLoop
    /\ Truthy(report_id)
    /\ \E r \in ReportResponses :
         /\ "raised" \notin DOMAIN r
         /\ r.status_code = HTTP_404_NOT_FOUND
         /\ calls' = Append(calls, [index |-> i, report_id |-> report_id, result |-> r])
    /\ usage_list' = AppendItem(usage_list, usage_item @@ [credits_used |-> 0])
    /\ i' = i + 1
    /\ UNCHANGED <<entry, pc, messages_response, messages, scored, response>>
    /\ UNCHANGED credit_vars

\* report_response.status_code == 404: credit_used = calculate_credits(text); append
ReportNotFound ==
    /\ InLoop
    /\ Truthy(report_id)
    /\ \E r \in ReportResponses :
         /\ "raised" \notin DOMAIN r
         /\ r.status_code = HTTP_404_NOT_FOUND
         /\ calls' = Append(calls, [index |-> i, report_id |-> report_id, result |-> r])
    /\ scored' = Append(scored, message_text)
    /\ usage_list' = AppendItem(usage_list,
                        usage_item @@ [credits_used |-> calculate_credits(message_text)])
    /\ i' = i + 1
    /\ UNCHANGED <<entry, pc, messages_response, messages, response>>
    /\ UNCHANGED credit_vars

\* any other status treated like a missing report
ReportErrorSkipped ==
    /\ InLoop
    /\ Truthy(report_id)
    /\ \E r \in ReportResponses :
         /\ "raised" \notin DOMAIN r
         /\ r.status_code \notin {HTTP_200_OK, HTTP_404_NOT_FOUND}
         /\ calls' = Append(calls, [index |-> i, report_id |-> report_id, result |-> r])
    /\ scored' = Append(scored, message_text)
    /\ usage_list' = AppendItem(usage_list,
                        usage_item @@ [credits_used |-> calculate_credits(message_text)])
    /\ i' = i + 1
    /\ UNCHANGED <<entry, pc, messages_response, messages, response>>
    /\ UNCHANGED credit_vars

\* any other status: raise HTTPException(500, "Failed to fetch report")
ReportError ==
    /\ InLoop
    /\ Truthy(report_id)
    /\ \E r \in ReportResponses :
         /\ "raised" \notin DOMAIN r
         /\ r.status_code \notin {HTTP_200_OK, HTTP_404_NOT_FOUND}
         /\ calls' = Append(calls, [index |-> i, report_id |-> report_id, result |-> r])
    /\ response' = HTTPException(HTTP_500_INTERNAL_SERVER_ERROR, "Failed to fetch report")
    /\ pc' = "done"
    /\ UNCHANGED <<entry, messages_response, messages, i, usage_list, scored>>
    /\ UNCHANGED credit_vars

\* requests.get(report_url) raises: nothing in get_usage catches it
ReportTransportError ==
    /\ InLoop
    /\ Truthy(report_id)
    /\ \E r \in ReportResponses :
         /\ "raised" \in DOMAIN r
         /\ calls' = Append(calls, [index |-> i, report_id |-> report_id, result |-> r])
         /\ response' = Unhandled(r.raised)
    /\ pc' = "done"
    /\ UNCHANGED <<entry, messages_response, messages, i, usage_list, scored>>
    /\ UNCHANGED credit_vars

\* return JSONResponse(content={"usage": usage_list})
Return ==
    /\ entry = "get_usage" /\ pc = "loop" /\ i > Len(messages)
    /\ response' = JSONResponse([usage |-> usage_list])
    /\ pc' = "done"
    /\ UNCHANGED <<entry, messages_response, messages, i, usage_list, calls, scored>>
    /\ UNCHANGED credit_vars

-----------------------------------------------------------------------------
(* calculate_credits, statement by statement *)

InCredits(at) == entry = "calculate_credits" /\ cpc = at

CharacterCountStep ==
    /\ InCredits("character_count")
    /\ total_credits' = CharacterCount(text)
    /\ cpc' = "word_length"
    /\ UNCHANGED <<entry, text, words, credits>>
    /\ UNCHANGED usage_vars

WordLengthStep ==
    /\ InCredits("word_length")
    /\ words' = findall(text)
    /\ total_credits' = total_credits + WordLengthMultipliers(words')
    /\ cpc' = "third_vowels"
    /\ UNCHANGED <<entry, text, credits>>
    /\ UNCHANGED usage_vars

ThirdVowelsStep ==
    /\ InCredits("third_vowels")
    /\ total_credits' = total_credits + ThirdVowels(text)
    /\ cpc' = "length_penalty"
    /\ UNCHANGED <<entry, text, words, credits>>
    /\ UNCHANGED usage_vars

LengthPenaltyStep ==
    /\ InCredits("length_penalty")
    /\ total_credits' = total_credits + LengthPenalty(text)
    /\ cpc' = "unique_word_bonus"
    /\ UNCHANGED <<entry, text, words, credits>>
    /\ UNCHANGED usage_vars

UniqueWordBonusStep ==
    /\ InCredits("unique_word_bonus")
    /\ total_credits' = UniqueWordBonus(total_credits, words)
    /\ cpc' = "palindrome_check"
    /\ UNCHANGED <<entry, text, words, credits>>
    /\ UNCHANGED usage_vars

PalindromeCheckStep ==
    /\ InCredits("palindrome_check")
    /\ total_credits' = PalindromeCheck(total_credits, text)
    /\ cpc' = "return"
    /\ UNCHANGED <<entry, text, words, credits>>
    /\ UNCHANGED usage_vars

ReturnCredits ==
    /\ InCredits("return")
    /\ credits' = total_credits
    /\ cpc' = "done"
    /\ UNCHANGED <<entry, text, words, total_credits>>
    /\ UNCHANGED usage_vars

-----------------------------------------------------------------------------
(* Specification *)

Init ==
    /\ entry \in {"get_usage", "calculate_credits"}
    /\ pc = IF entry = "get_usage" THEN "fetch" ELSE "idle"
    /\ messages_response = Pending
    /\ messages = <<>>
    /\ i = 1
    /\ usage_list = <<>>
    /\ calls = <<>>
    /\ scored = <<>>
    /\ response = Pending
    /\ cpc = IF entry = "calculate_credits" THEN "character_count" ELSE "idle"
    /\ text \in IF entry = "calculate_credits" THEN Texts ELSE {<<>>}
    /\ words = <<>>
    /\ total_credits = 0
    /\ credits = 0

Next ==
    \/ FetchMessages
    \/ NoReport
    \/ ReportFound
    \/ ReportNotFound
    \/ ReportError
    \/ ReportTransportError
    \/ Return
    \/ CharacterCountStep
    \/ WordLengthStep
    \/ ThirdVowelsStep
    \/ LengthPenaltyStep
    \/ UniqueWordBonusStep
    \/ PalindromeCheckStep
    \/ ReturnCredits

Spec == Init /\ [][Next]_vars

-----------------------------------------------------------------------------
(* The scoring rules as the specification words them, in hundredths of a   *)
(* credit                                                                  *)

Letters == UpperCase \cup LowerCase

\* a maximal run of letters, apostrophes and hyphens, as <<first, last>>
MaximalRuns(t) ==
    LET InWord(k) == t[k] \in Letters \cup {"'", "-"}
        Firsts == {a \in DOMAIN t : InWord(a) /\ (a = 1 \/ ~InWord(a - 1))}
        Lasts == {b \in DOMAIN t : InWord(b) /\ (b = Len(t) \/ ~InWord(b + 1))}
    IN  {r \in Firsts \X Lasts : r[1] <= r[2] /\ \A k \in r[1]..r[2] : InWord(k)}

RunLength(r) == r[2] - r[1] + 1

\* 0.1 for each word of length 1-3, 0.2 for length 4-7, 0.3 for length >= 8
BucketCosts(t) ==
    10 * Cardinality({r \in MaximalRuns(t) : RunLength(r) <= 3})
    + 20 * Cardinality({r \in MaximalRuns(t) : RunLength(r) >= 4 /\ RunLength(r) <= 7})
    + 30 * Cardinality({r \in MaximalRuns(t) : RunLength(r) >= 8})

\* no word occurs twice, compared case-sensitively
WordsDistinct(t) ==
    \A r1, r2 \in MaximalRuns(t) :
        r1 # r2 => SubSeq(t, r1[1], r1[2]) # SubSeq(t, r2[1], r2[2])

\* vowels, case-insensitive, at 0-based indices 2, 5, 8, ... below len(text)
VowelHits(t) ==
    Cardinality({k \in 0..(Len(t) - 1) :
                    k % 3 = 2 /\ t[k + 1] \in {"a", "e", "i", "o", "u", "A", "E", "I", "O", "U"}})

SameIgnoringCase(c, d) ==
    c = d \/ \E k \in DOMAIN UpperSeq : {c, d} = {UpperSeq[k], LowerSeq[k]}

\* the letters and digits of the text, in order
Alphanumerics(t) ==
    LET Keep(c) == c \in Letters \cup Digits
    IN  SelectSeq(t, Keep)

\* the cleaned text equals its own reverse (the empty one does)
ReadsSameBothWays(t) ==
    LET s == Alphanumerics(t)
    IN  \A k \in DOMAIN s : SameIgnoringCase(s[k], s[Len(s) + 1 - k])

\* the cleaned text is non-empty and equals its own reverse
Doubles(t) == Alphanumerics(t) # <<>> /\ ReadsSameBothWays(t)

\* base, character, word, vowel and length-penalty costs
PlainSum(t) ==
    100 + 5 * Len(t) + BucketCosts(t) + 30 * VowelHits(t)
    + (IF Len(t) > 100 THEN 500 ELSE 0)

FetchFailed ==
    \/ "raised" \in DOMAIN messages_response
    \/ /\ "status_code" \in DOMAIN messages_response
       /\ messages_response.status_code \notin 200..299

LookupStatus(k) ==
    IF "status_code" \in DOMAIN calls[k].result THEN calls[k].result.status_code ELSE 0

\* the lookups issued for the message at position n
LookupsOf(n) == {k \in DOMAIN calls : calls[k].index = n}

Returned == entry = "get_usage" /\ pc = "done" /\ response.kind = "JSONResponse"

-----------------------------------------------------------------------------
(* Claims *)

\* C1: whenever get_usage returns a usage list, it holds exactly one item per
\* fetched message, in the messages' order: usage[k] carries the id and the
\* timestamp of messages[k], and the two lists have the same length.
C1_OneItemPerMessageInOrder ==
    Returned =>
        LET usage == response.content.usage
        IN  /\ Len(usage) = Len(messages)
            /\ \A k \in DOMAIN usage :
                  /\ usage[k].message_id = messages[k].id
                  /\ usage[k].timestamp = messages[k].timestamp

\* a returned list of three messages, the first two with different ids, with a
\* found report, a missing report and a message without report among them
C1_Witness ==
    /\ Returned
    /\ Len(messages) = 3
    /\ messages[1].id # messages[2].id
    /\ \E k \in DOMAIN calls : LookupStatus(k) = 200
    /\ \E k \in DOMAIN calls : LookupStatus(k) = 404
    /\ \E n \in DOMAIN messages : "report_id" \notin DOMAIN messages[n]

\* C2: an item whose report lookup returned 200 carries the report's name and
\* the report's credit_cost (0 when the report has none), with no minimum of 1
\* credit applied, whatever calculate_credits gives for the message's text.
C2_ReportCostPassedThrough ==
    \A k \in DOMAIN calls :
        LookupStatus(k) = 200 =>
            LET n == calls[k].index
                report == calls[k].result.json
            IN  /\ n \in DOMAIN usage_list
                /\ "report_name" \in DOMAIN usage_list[n]
                /\ usage_list[n].report_name
                     = (IF "name" \in DOMAIN report THEN report.name ELSE None)
                /\ usage_list[n].credits_used
                     = (IF "credit_cost" \in DOMAIN report THEN report.credit_cost ELSE 0)
                /\ Returned => response.content.usage[n] = usage_list[n]

\* a returned item costing the report's half credit, below the minimum of 1 and
\* not what the message's text scores
C2_Witness ==
    /\ Returned
    /\ \E k \in DOMAIN calls :
          /\ LookupStatus(k) = 200
          /\ "credit_cost" \in DOMAIN calls[k].result.json
          /\ calls[k].result.json.credit_cost < 100
          /\ "text" \in DOMAIN messages[calls[k].index]
          /\ response.content.usage[calls[k].index].credits_used
               # calculate_credits(messages[calls[k].index].text)
          /\ response.content.usage[calls[k].index].credits_used
               = calls[k].result.json.credit_cost

\* C3: for a message without a truthy report_id, or whose lookup returned 404,
\* processing goes on: its item has no report_name and costs
\* calculate_credits(text), text being "" when the message has none; and a run
\* whose lookups all returned 200 or 404 ends with the usage list.
C3_FallbackToScoring ==
    /\ \A n \in DOMAIN usage_list :
          LET m == messages[n]
              falsy == "report_id" \notin DOMAIN m \/ m.report_id = ""
              missing == \E k \in LookupsOf(n) : LookupStatus(k) = 404
              scoredText == IF "text" \in DOMAIN m THEN m.text ELSE <<>>
          IN  (falsy \/ missing) =>
                  /\ "report_name" \notin DOMAIN usage_list[n]
                  /\ usage_list[n].credits_used = calculate_credits(scoredText)
    /\ \A k \in DOMAIN calls :
          LookupStatus(k) = 404 => calls[k].index \in DOMAIN usage_list
    /\ (/\ entry = "get_usage" /\ pc = "done" /\ ~FetchFailed
        /\ \A k \in DOMAIN calls : LookupStatus(k) \in {200, 404})
         => /\ response.kind = "JSONResponse"
            /\ response.status_code = 200
            /\ response.content.usage = usage_list

\* a returned list with a 404 for a message without text and an item for a
\* message whose report_id is the empty string
C3_Witness ==
    /\ Returned
    /\ \E k \in DOMAIN calls :
          /\ LookupStatus(k) = 404
          /\ "text" \notin DOMAIN messages[calls[k].index]
          /\ response.content.usage[calls[k].index].credits_used = 100
    /\ \E n \in DOMAIN messages :
          /\ "report_id" \in DOMAIN messages[n]
          /\ messages[n].report_id = ""
          /\ "text" \in DOMAIN messages[n]
          /\ response.content.usage[n].credits_used > 100

\* C4: a report lookup that returns a status other than 200 and 404 ends the
\* request with HTTP 500 "Failed to fetch report": no usage list is returned,
\* that lookup is the last one issued (none for a later message) and the only
\* one for its message (no retry).
C4_LookupErrorAborts ==
    \A k \in DOMAIN calls :
        (LookupStatus(k) \notin {0, 200, 404}) =>
            /\ pc = "done"
            /\ response.kind = "HTTPException"
            /\ response.status_code = 500
            /\ response.detail = "Failed to fetch report"
            /\ k = Len(calls)
            /\ LookupsOf(calls[k].index) = {k}
            /\ \A j \in DOMAIN calls : calls[j].index <= calls[k].index

\* the second of three messages fails with the first one resolved and the third
\* one still having a report to look up
C4_Witness ==
    /\ entry = "get_usage" /\ pc = "done"
    /\ Len(messages) = 3
    /\ Len(usage_list) = 1
    /\ calls # <<>>
    /\ LookupStatus(Len(calls)) \in {403, 500}
    /\ calls[Len(calls)].index = 2
    /\ "report_id" \in DOMAIN messages[3] /\ messages[3].report_id = "123"

\* C5: when the fetch of the message list raises or returns a non-success
\* status, the request ends with HTTP 500 "Failed to fetch messages" and no
\* report lookup, no calculate_credits call and no usage item was ever made.
C5_FetchFailureAborts ==
    FetchFailed =>
        /\ pc = "done"
        /\ response.kind = "HTTPException"
        /\ response.status_code = 500
        /\ response.detail = "Failed to fetch messages"
        /\ calls = <<>>
        /\ scored = <<>>
        /\ usage_list = <<>>

\* a 404 answer that carries messages with reports to look up
C5_Witness ==
    /\ pc = "done"
    /\ "status_code" \in DOMAIN messages_response
    /\ messages_response.status_code = 404
    /\ \E n \in DOMAIN messages_response.json.messages :
          "report_id" \in DOMAIN messages_response.json.messages[n]
    /\ response.kind = "HTTPException"

\* C6: a report lookup that raises at the transport level ends the request
\* with HTTP 500 "Failed to fetch report".
C6_TransportFailureSurfacedAs500 ==
    \A k \in DOMAIN calls :
        "raised" \in DOMAIN calls[k].result =>
            /\ response.kind = "HTTPException"
            /\ response.status_code = 500
            /\ response.detail = "Failed to fetch report"

\* C7: calculate_credits returns at least 1 credit for every text, and every
\* usage item without a report costs at least 1 credit.
C7_AtLeastOneCredit ==
    /\ (entry = "calculate_credits" /\ cpc = "done") => credits >= 100
    /\ \A n \in DOMAIN usage_list :
          "report_name" \notin DOMAIN usage_list[n] => usage_list[n].credits_used >= 100

\* a returned score for a text with a repeated word, where the minimum is not
\* applied
C7_Witness ==
    /\ entry = "calculate_credits" /\ cpc = "done"
    /\ ~WordsDistinct(text)
    /\ credits >= 100

\* C8 as stated: for a text whose words are all distinct and whose cleaned form
\* is not a palindrome, calculate_credits returns
\* max(1, 1 + 0.05 len + word costs + 0.3 vowel hits - 2).
C8_AsStated ==
    (/\ entry = "calculate_credits" /\ cpc = "done"
     /\ WordsDistinct(text) /\ ~ReadsSameBothWays(text))
      => credits = Max(100, 100 + 5 * Len(text) + BucketCosts(text)
                              + 30 * VowelHits(text) - 200)

\* C8 amended: for such a text calculate_credits returns
\* max(1, 1 + 0.05 len + word costs + 0.3 vowel hits + (5 if len > 100) - 2).
C8_WithLengthPenalty ==
    (/\ entry = "calculate_credits" /\ cpc = "done"
     /\ WordsDistinct(text) /\ ~ReadsSameBothWays(text))
      => credits = Max(100, 100 + 5 * Len(text) + BucketCosts(text)
                              + 30 * VowelHits(text)
                              + (IF Len(text) > 100 THEN 500 ELSE 0) - 200)

\* a returned score above the minimum for a text of more than 100 characters
\* with distinct words, a word of 4 to 7 letters among them, and no palindrome
C8_Witness ==
    /\ entry = "calculate_credits" /\ cpc = "done"
    /\ WordsDistinct(text) /\ ~ReadsSameBothWays(text)
    /\ Len(text) > 100
    /\ \E r \in MaximalRuns(text) : RunLength(r) >= 4 /\ RunLength(r) <= 7
    /\ credits > 100

\* C9: the palindrome step doubles the running total exactly when the text
\* without its non-alphanumeric characters, lowercased, is non-empty and equals
\* its reverse, and leaves it alone otherwise; the doubled result is returned
\* and is at least 2; calculate_credits("") is 1.
C9_PalindromeDoubling ==
    /\ [][/\ (entry = "calculate_credits" /\ cpc = "palindrome_check") =>
                total_credits' = IF Doubles(text) THEN 2 * total_credits
                                 ELSE total_credits
          /\ (entry = "calculate_credits" /\ cpc = "return") =>
                credits' = total_credits]_vars
    /\ []((entry = "calculate_credits" /\ cpc = "done" /\ Doubles(text))
            => credits >= 200)
    /\ []((entry = "calculate_credits" /\ cpc = "done" /\ text = <<>>)
            => credits = 100)

\* a doubled score for a text that is a palindrome only once its apostrophe is
\* dropped and its case folded
C9_Witness ==
    /\ entry = "calculate_credits" /\ cpc = "done"
    /\ Doubles(text)
    /\ \E k \in DOMAIN text : text[k] = "'"
    /\ \E k \in DOMAIN text : text[k] = "A" /\ text[Len(text) + 1 - k] = "a"
    /\ credits >= 200

\* C10: before the palindrome step the running total is the plain sum of base,
\* character, word, vowel and length-penalty costs, less 2 and then raised to
\* at least 1 exactly when no word occurs twice (compared case-sensitively, a
\* text without words included), and the plain sum itself otherwise.
C10_UniquenessBonus ==
    /\ (entry = "calculate_credits" /\ cpc = "unique_word_bonus")
         => total_credits = PlainSum(text)
    /\ (entry = "calculate_credits" /\ cpc = "palindrome_check")
         => total_credits = IF WordsDistinct(text)
                            THEN Max(PlainSum(text) - 200, 100)
                            ELSE PlainSum(text)

\* the bonus applied to a long text without any word, where it does take 2 off
C10_Witness ==
    /\ entry = "calculate_credits" /\ cpc = "palindrome_check"
    /\ text # <<>> /\ MaximalRuns(text) = {}
    /\ total_credits = PlainSum(text) - 200
    /\ total_credits > 100

====
